---- MODULE Spec2Model ----
(***************************************************************************)
(* The public-session store of blitz-auth's client                         *)
(* (packages/blitz-auth/src/client/index.tsx): the session cookie, its     *)
(* localStorage mirror, the cross-tab broadcast key, the observable of     *)
(* each browsing context and the anti-CSRF helpers and middleware hooks    *)
(* that drive them.                                                        *)
(*                                                                         *)
(* The cookie jar and localStorage are shared by every context of the      *)
(* origin; each context owns one PublicDataStore.  A `storage` event is    *)
(* queued for every OTHER context when setItem/removeItem changes a key's  *)
(* value (the platform queues none when the value stays the same).         *)
(***************************************************************************)
EXTENDS Integers, Sequences, FiniteSets, TLC

\* Bounds of the model.
MaxClock == 1       \* Date.now() ranges over 0..MaxClock
MaxPending == 1     \* queued broadcast-key storage events per context

Contexts == {"A", "B"}
Observers == {"o1", "o2"}

Other(c) == Contexts \ {c}

\* ----------------------------------------------------------------- values

Absent == "absent"                      \* undefined / null
Truthy(v) == v # Absent /\ v # ""       \* `if (cookieValue)`, `if (!token)`

COOKIE_PUBLIC_DATA_TOKEN == "sPublicDataToken"
COOKIE_CSRF_TOKEN == "sAntiCsrfToken"
LOCALSTORAGE_PUBLIC_DATA_TOKEN == "publicDataToken"
LOCALSTORAGE_CSRF_TOKEN == "antiCSRFToken"
eventKey == "publicDataUpdated"

emptyPublicData == [userId |-> "null", role |-> "null"]
userA == [userId |-> "u1", role |-> "admin"]
userB == [userId |-> "u2", role |-> "user"]
Undefined == [userId |-> "undefined", role |-> "undefined"]

\* Session tokens the server may issue; TokBad is a token whose payload is
\* not JSON.
TokA == "tokA"
TokB == "tokB"
TokBad == "tokBad"
Tokens == {TokA, TokB, TokBad}
CsrfTokens == {"csrf1", "csrf2"}

fromBase64(token) ==
  CASE token = TokA -> "{u1,admin}"
    [] token = TokB -> "{u2,user}"
    [] OTHER -> "not json"

JSONparse(str) ==
  CASE str = "{u1,admin}" -> [threw |-> FALSE, val |-> userA]
    [] str = "{u2,user}" -> [threw |-> FALSE, val |-> userB]
    [] OTHER -> [threw |-> TRUE, val |-> Undefined]

parsePublicDataToken(token) ==
  IF ~Truthy(token)
  THEN [threw |-> TRUE, publicData |-> Undefined]
  ELSE LET r == JSONparse(fromBase64(token))
       IN  [threw |-> r.threw, publicData |-> r.val]

\* ------------------------------------------------------------------ state

VARIABLES
  cookies,    \* the origin's cookie jar: cookie name -> value
  ls,         \* the origin's localStorage: key -> value
  storageOK,  \* FALSE: every localStorage access throws
  now,        \* Date.now()
  subs,       \* per context: the observers subscribed to observable
  value,      \* per context: observable's current value
  pending,    \* per context: storage events queued for its listener
  pc,         \* per context: position inside a call that is interleaved
  tmp,        \* per context: cookieValue held by an interleaved getToken
  last,       \* the call that ran last, with what it saw and did
  ui          \* the React side: the useSession hooks and the gate of a page

vars == <<cookies, ls, storageOK, now, subs, value, pending, pc, tmp, last, ui>>

\* The state a handler threads through its statements.
Machine ==
  [ck |-> cookies, ls |-> ls, pend |-> pending, val |-> value,
   dlv |-> [o \in Observers |-> <<>>], hdrs |-> {}]

NoCall ==
  [op |-> "none", ctx |-> "none", suppress |-> FALSE, given |-> Undefined,
   threw |-> FALSE, data |-> Undefined, tok |-> Absent,
   dlv |-> [o \in Observers |-> <<>>], hdrs |-> {}, marks |-> {},
   mirror0 |-> Absent]

\* -------------------------------------------------------------- localStorage

\* The storage events of one write: none when the value stays the same,
\* none for the writing context.
dispatchStorage(p, c, key, old, new) ==
  IF old = new
  THEN p
  ELSE [d \in Contexts |->
          IF d = c THEN p[d]
          ELSE IF key = eventKey
               THEN [p[d] EXCEPT ![key] = @ + 1]
               ELSE [p[d] EXCEPT ![key] = 1]]

setItem(m, c, key, v) ==
  [m EXCEPT !.ls = [m.ls EXCEPT ![key] = v],
            !.pend = dispatchStorage(m.pend, c, key, m.ls[key], v)]

removeItem(m, c, key) == setItem(m, c, key, Absent)


\* ------------------------------------------------------------ PublicDataStore

toString(n) == <<n>>    \* the decimal string of a timestamp (one digit here)

observableNext(m, c, v) ==
  [m EXCEPT !.val = [m.val EXCEPT ![c] = v],
            !.dlv = [o \in Observers |->
                       IF o \in subs[c] THEN Append(m.dlv[o], v) ELSE m.dlv[o]]]

\* getToken without the write-through of the cookie's value.
getTokenNoWriteThrough(m, c) ==
  LET cookieValue == m.ck[COOKIE_PUBLIC_DATA_TOKEN] IN
  IF Truthy(cookieValue)
  THEN [m |-> m, ret |-> IF storageOK THEN cookieValue ELSE Absent]
  ELSE [m |-> m, ret |-> IF storageOK THEN m.ls[LOCALSTORAGE_PUBLIC_DATA_TOKEN]
                                      ELSE Absent]

\* getToken writing the cookie's value through before testing it.
getTokenWritesBack(m, c) ==
  LET cookieValue == m.ck[COOKIE_PUBLIC_DATA_TOKEN] IN
  IF ~storageOK
  THEN [m |-> m, ret |-> Absent]
  ELSE LET m1 == setItem(m, c, LOCALSTORAGE_PUBLIC_DATA_TOKEN, cookieValue)
       IN  [m |-> m1,
            ret |-> IF Truthy(cookieValue) THEN cookieValue
                    ELSE m1.ls[LOCALSTORAGE_PUBLIC_DATA_TOKEN]]

\* getToken from the point where readCookie() has returned cookieValue.
getTokenWith(m, c, cookieValue) ==
  IF Truthy(cookieValue)
  THEN IF storageOK
       THEN [m |-> setItem(m, c, LOCALSTORAGE_PUBLIC_DATA_TOKEN, cookieValue),
             ret |-> cookieValue]
       ELSE [m |-> m, ret |-> Absent]          \* setItem threw: catch
  ELSE IF storageOK
       THEN [m |-> m, ret |-> m.ls[LOCALSTORAGE_PUBLIC_DATA_TOKEN]]
       ELSE [m |-> m, ret |-> Absent]          \* getItem threw: catch

getToken(m, c) == getTokenWith(m, c, m.ck[COOKIE_PUBLIC_DATA_TOKEN])

\* getData from the point where getToken() has returned t.
getDataOf(t) ==
  IF ~Truthy(t.ret)
  THEN [m |-> t.m, threw |-> FALSE, data |-> emptyPublicData, tok |-> t.ret]
  ELSE LET p == parsePublicDataToken(t.ret)
       IN  [m |-> t.m, threw |-> p.threw, data |-> p.publicData, tok |-> t.ret]

getData(m, c) == getDataOf(getToken(m, c))

\* updateState from the point where getData() has returned g (or failed).
updateStateOf(g, c) ==
  IF g.threw
  THEN [m |-> g.m, threw |-> TRUE]
  ELSE [m |-> observableNext(g.m, c, g.data), threw |-> FALSE]

\* The broadcast of updateState: the timestamp written to the broadcast key.
broadcast(m, c, suppressEvent) ==
  IF ~suppressEvent /\ storageOK
  THEN setItem(m, c, eventKey, toString(now))
  ELSE m                                       \* suppressed, or setItem threw

\* updateState ignoring opts.suppressEvent.
updateStateAlwaysBroadcasts(m, c, v, suppressEvent) ==
  LET m1 == broadcast(m, c, FALSE)
  IN  IF v # Undefined
      THEN [m |-> observableNext(m1, c, v), threw |-> FALSE]
      ELSE updateStateOf(getData(m1, c), c)

updateState(m, c, v, suppressEvent) ==
  LET m1 == broadcast(m, c, suppressEvent)
  IN  IF v # Undefined
      THEN [m |-> observableNext(m1, c, v), threw |-> FALSE]
      ELSE updateStateOf(getData(m1, c), c)

\* clear without the removal of the mirror.
clearKeepsMirror(m, c) ==
  LET m1 == [m EXCEPT !.ck = [m.ck EXCEPT ![COOKIE_PUBLIC_DATA_TOKEN] = Absent]]
  IN  updateState(m1, c, emptyPublicData, FALSE)

deleteSessionCookie(m) ==
  [m EXCEPT !.ck = [m.ck EXCEPT ![COOKIE_PUBLIC_DATA_TOKEN] = Absent]]

removeMirror(m, c) ==
  IF storageOK
  THEN removeItem(m, c, LOCALSTORAGE_PUBLIC_DATA_TOKEN)
  ELSE m                                       \* removeItem threw: catch

clear(m, c) ==
  updateState(removeMirror(deleteSessionCookie(m), c), c, emptyPublicData, FALSE)

\* The listener recomputing without suppressEvent.
storageListenerBroadcasts(m, c, key) ==
  IF key = eventKey
  THEN updateState(m, c, Undefined, FALSE)
  ELSE [m |-> m, threw |-> FALSE]

\* The `storage` listener the constructor installs.
storageListener(m, c, key) ==
  IF key = eventKey
  THEN updateState(m, c, Undefined, TRUE)
  ELSE [m |-> m, threw |-> FALSE]

\* ------------------------------------------------------------------ anti-CSRF

backupAntiCSRFTokenToLocalStorage(m, c) ==
  LET cookieValue == m.ck[COOKIE_CSRF_TOKEN] IN
  IF Truthy(cookieValue)
  THEN IF storageOK
       THEN [m |-> setItem(m, c, LOCALSTORAGE_CSRF_TOKEN, cookieValue),
             threw |-> FALSE]
       ELSE [m |-> m, threw |-> TRUE]          \* setItem threw: no catch
  ELSE [m |-> m, threw |-> FALSE]

getAntiCSRFToken(m, c) ==
  LET cookieValue == m.ck[COOKIE_CSRF_TOKEN] IN
  IF Truthy(cookieValue)
  THEN [m |-> m, threw |-> FALSE, ret |-> cookieValue]
  ELSE IF storageOK
       THEN [m |-> m, threw |-> FALSE, ret |-> m.ls[LOCALSTORAGE_CSRF_TOKEN]]
       ELSE [m |-> m, threw |-> TRUE, ret |-> Absent]   \* getItem threw: no catch

\* ----------------------------------------------------------------- middleware

HEADER_CSRF == "anti-csrf"
HEADER_PUBLIC_DATA_TOKEN == "public-data-token"
HEADER_SESSION_CREATED == "session-created"
HEADER_CSRF_ERROR == "csrf-error"
ResponseMarkers == {HEADER_PUBLIC_DATA_TOKEN, HEADER_SESSION_CREATED, HEADER_CSRF_ERROR}

\* beforeHttpRequest setting the anti-CSRF header whatever the token is.
beforeHttpRequestAlwaysAttaches(m, c) ==
  LET a == getAntiCSRFToken(m, c) IN
  IF a.threw
  THEN [m |-> m, threw |-> TRUE]
  ELSE [m |-> [m EXCEPT !.hdrs = {<<"Content-Type", "application/json">>,
                                  <<HEADER_CSRF, a.ret>>}],
        threw |-> FALSE]

\* hdrs: the headers the hook put on the request.
beforeHttpRequest(m, c) ==
  LET a == getAntiCSRFToken(m, c) IN
  IF a.threw
  THEN [m |-> m, threw |-> TRUE]
  ELSE [m |-> [m EXCEPT !.hdrs = IF Truthy(a.ret)
                                 THEN {<<"Content-Type", "application/json">>,
                                       <<HEADER_CSRF, a.ret>>}
                                 ELSE {<<"Content-Type", "application/json">>}],
        threw |-> FALSE]

\* marks: the marker headers of the response (res.headers is present).
beforeHttpResponse(m, c, marks) ==
  LET b == backupAntiCSRFTokenToLocalStorage(m, c) IN
  IF b.threw
  THEN [m |-> b.m, threw |-> TRUE]
  ELSE LET u == IF HEADER_PUBLIC_DATA_TOKEN \in marks
                THEN updateState(b.m, c, Undefined, FALSE)
                ELSE [m |-> b.m, threw |-> FALSE]
       IN  IF u.threw
           THEN u
           ELSE [m |-> u.m, threw |-> HEADER_CSRF_ERROR \in marks]

\* onRpcError clearing the store of an anonymous session too.
onRpcErrorClearsAnonymous(m, c, name) ==
  IF name = "AuthenticationError"
  THEN LET g == getData(m, c) IN
       IF g.threw
       THEN [m |-> g.m, threw |-> TRUE]
       ELSE clear(g.m, c)
  ELSE [m |-> m, threw |-> FALSE]

onRpcError(m, c, name) ==
  IF name = "AuthenticationError"
  THEN LET g == getData(m, c) IN
       IF g.threw
       THEN [m |-> g.m, threw |-> TRUE]
       ELSE IF g.data.userId # "null"
            THEN clear(g.m, c)
            ELSE [m |-> g.m, threw |-> FALSE]
  ELSE [m |-> m, threw |-> FALSE]

\* ----------------------------------------------------------------- useSession
\* The hook instances of the context HookCtx; instance h subscribes to the
\* store's observable as observer h.

HookCtx == "A"

NoHook ==
  [phase |-> "none", initialPublicData |-> Undefined, suspense |-> FALSE,
   isServer |-> FALSE, session |-> Undefined, isLoading |-> FALSE, cleanups |-> 0]

\* options?.suspense ?? Boolean(globalThis.__BLITZ_SUSPENSE_ENABLED)
suspenseOf(option, enabled) ==
  IF option = "null" THEN enabled ELSE option = "true"

\* initialState, always read from the store on a client.
initialStateReadsStore(m, c, initialPublicData, suspense, isServer) ==
  IF isServer
  THEN [m |-> m, threw |-> suspense /\ initialPublicData = Undefined,
        session |-> IF initialPublicData # Undefined THEN initialPublicData
                    ELSE emptyPublicData,
        isLoading |-> initialPublicData = Undefined]
  ELSE LET g == getData(m, c)
       IN  [m |-> g.m, threw |-> g.threw, session |-> g.data, isLoading |-> FALSE]

\* The first render's initialState: threw is the suspension of a suspense
\* render on the server, or getData()'s failure.
initialState(m, c, initialPublicData, suspense, isServer) ==
  IF initialPublicData # Undefined
  THEN [m |-> m, threw |-> FALSE, session |-> initialPublicData, isLoading |-> FALSE]
  ELSE IF suspense
       THEN IF isServer
            THEN [m |-> m, threw |-> TRUE, session |-> Undefined, isLoading |-> FALSE]
            ELSE LET g == getData(m, c)
                 IN  [m |-> g.m, threw |-> g.threw, session |-> g.data,
                      isLoading |-> FALSE]
       ELSE [m |-> m, threw |-> FALSE, session |-> emptyPublicData, isLoading |-> TRUE]

\* The callback taking a session without user for one still loading.
subscriberCallbacksLoadingWhenEmpty(hook, dlv) ==
  [h \in Observers |->
     IF hook[h].phase # "none" /\ dlv[h] # <<>>
     THEN [hook[h] EXCEPT !.session = dlv[h][Len(dlv[h])],
                          !.isLoading = (dlv[h][Len(dlv[h])].userId = "null")]
     ELSE hook[h]]

\* (data) => setSession({...data, isLoading: false}), for every value
\* delivered to the hook's observer.
subscriberCallbacks(hook, dlv) ==
  [h \in Observers |->
     IF hook[h].phase # "none" /\ dlv[h] # <<>>
     THEN [hook[h] EXCEPT !.session = dlv[h][Len(dlv[h])], !.isLoading = FALSE]
     ELSE hook[h]]

\* An effect whose cleanup is missing.
useSessionNoCleanup(observers, h) == observers

\* subscription.unsubscribe, the effect's cleanup
useSessionCleanup(observers, h) == observers \ {h}

\* ------------------------------------------------------------------ the gate
\* withBlitzAuthPlugin's AuthRoot around a page, with the rules the page
\* declares.  A role is [kind, names]: undefined, a string or an array.

NoRole == [kind |-> "undefined", names |-> {}]
RoleString(r) == [kind |-> "string", names |-> {r}]
RoleArray(rs) == [kind |-> "array", names |-> rs]

\* authenticate: undefined, false, true, or {redirectTo?, role?}
NoAuthenticate == [kind |-> "undefined", redirectTo |-> "undefined", role |-> NoRole]
AuthenticateFalse == [kind |-> "false", redirectTo |-> "undefined", role |-> NoRole]
AuthenticateTrue == [kind |-> "true", redirectTo |-> "undefined", role |-> NoRole]
AuthenticateObject(redirectTo, role) ==
  [kind |-> "object", redirectTo |-> redirectTo, role |-> role]

\* The parts of a URL string.
parseURL(str) ==
  CASE str = "/login" -> [origin |-> "", pathname |-> "/login", search |-> <<>>]
    [] str = "https://sso.test/in?app=1" ->
         [origin |-> "https://sso.test", pathname |-> "/in",
          search |-> << <<"app", "1">> >>]
    [] str = "https://app.test/secret?tab=2" ->
         [origin |-> "https://app.test", pathname |-> "/secret",
          search |-> << <<"tab", "2">> >>]
    [] str = "https://app.test/" ->
         [origin |-> "https://app.test", pathname |-> "/", search |-> <<>>]
    [] OTHER -> [origin |-> "", pathname |-> str, search |-> <<>>]

\* new URL(url, base): a relative url takes the base's origin.
URL(url, base) ==
  LET u == parseURL(url) IN
  IF u.origin = "" THEN [u EXCEPT !.origin = parseURL(base).origin] ELSE u

searchParamsAppend(url, name, v) ==
  [url EXCEPT !.search = Append(@, <<name, v>>)]

NoURL == [origin |-> "", pathname |-> "", search |-> <<>>]

\* A string-valued redirect target as RedirectError carries it.
Target(str) == [origin |-> "", pathname |-> str, search |-> <<>>]

\* redirectAuthenticatedTo: undefined, false, a string, or a function of the
\* session; adminsOnly is ({session}) => session.role === "admin" ? "/admin" : false
\* A function-valued rule resolved without the session.
redirectAuthenticatedToOfIgnoresSession(rule, publicData) ==
  IF rule = "adminsOnly" THEN "/admin" ELSE rule

redirectAuthenticatedToOf(rule, publicData) ==
  IF rule = "adminsOnly"
  THEN IF publicData.role = "admin" THEN "/admin" ELSE "false"
  ELSE rule

RuleTruthy(str) == str \notin {"undefined", "false", ""}

NoRules == [authenticate |-> NoAuthenticate, redirectAuthenticatedTo |-> "undefined"]

\* The loop over the layout's chain of single children, outermost first:
\* layout is the chain of the elements' types, currentElement its i-th
\* element.  The type tested is layout.type, the outermost element's.
RECURSIVE walkLayout(_, _)
walkLayout(layout, i) ==
  LET type == layout[1] IN
  IF type.authenticate # NoAuthenticate \/ type.redirectAuthenticatedTo # "undefined"
  THEN [authenticate |-> type.authenticate,
        redirectAuthenticatedTo |-> type.redirectAuthenticatedTo]
  ELSE IF i < Len(layout)
       THEN walkLayout(layout, i + 1)
       ELSE NoRules

\* Page.layout: the chain Page.getLayout returns, <<>> without getLayout.
getAuthValues(Page) ==
  IF /\ Page.authenticate = NoAuthenticate
     /\ Page.redirectAuthenticatedTo = "undefined"
     /\ Page.layout # <<>>
  THEN walkLayout(Page.layout, 1)
  ELSE [authenticate |-> Page.authenticate,
        redirectAuthenticatedTo |-> Page.redirectAuthenticatedTo]

authorizeRole(role, currentRole) ==
  IF role.kind # "undefined" /\ currentRole \notin {"null", "undefined", ""}
  THEN IF role.kind = "array"
       THEN currentRole \in role.names
       ELSE role.names = {currentRole}
  ELSE FALSE

\* useAuthorizeIf without the check of the role.
useAuthorizeIfIgnoresRole(m, c, condition, role, mounted, isClient) ==
  IF ~(isClient /\ condition)
  THEN [m |-> m, fault |-> "none"]
  ELSE LET g == getData(m, c) IN
       IF g.threw
       THEN [m |-> g.m, fault |-> "Error"]
       ELSE IF g.data.userId = "null" /\ mounted
            THEN [m |-> g.m, fault |-> "AuthenticationError"]
            ELSE [m |-> g.m, fault |-> "none"]

\* fault: "none", "AuthenticationError", or "Error" when getData() throws
useAuthorizeIf(m, c, condition, role, mounted, isClient) ==
  IF ~(isClient /\ condition)
  THEN [m |-> m, fault |-> "none"]
  ELSE LET g == getData(m, c) IN
       IF g.threw
       THEN [m |-> g.m, fault |-> "Error"]
       ELSE IF g.data.userId = "null" /\ mounted
            THEN [m |-> g.m, fault |-> "AuthenticationError"]
            ELSE IF role.kind # "undefined" /\ g.data.userId # "null" /\ mounted
                    /\ ~authorizeRole(role, g.data.role)
                 THEN [m |-> g.m, fault |-> "AuthenticationError"]
                 ELSE [m |-> g.m, fault |-> "none"]

\* The redirect without the next parameter.
redirectToURLWithoutNext(redirectTo, location) == URL(redirectTo, location)

\* The redirect of an authenticate rule: redirectTo resolved against the
\* location, with next = the location's pathname.
redirectToURL(redirectTo, location) ==
  searchParamsAppend(URL(redirectTo, location), "next", parseURL(location).pathname)

\* One render of AuthRoot: the fault it throws ("none": the page renders)
\* and the URL of a RedirectError.
AuthRoot(m, c, Page, mounted, isClient, location) ==
  LET a == getAuthValues(Page)
      authenticate == a.authenticate
      u == useAuthorizeIf(m, c,
             authenticate.kind = "true"
               \/ (authenticate.kind = "object" /\ authenticate.redirectTo = "undefined"),
             IF authenticate.kind = "object" THEN authenticate.role ELSE NoRole,
             mounted, isClient)
  IN
  IF u.fault # "none" THEN [m |-> u.m, fault |-> u.fault, url |-> NoURL]
  ELSE IF ~isClient THEN [m |-> u.m, fault |-> "none", url |-> NoURL]
  ELSE
  LET g == getData(u.m, c)
      publicData == g.data
      redirectAuthenticatedTo ==
        redirectAuthenticatedToOf(a.redirectAuthenticatedTo, publicData)
      redirects == authenticate.kind = "object" /\ RuleTruthy(authenticate.redirectTo)
  IN
  IF g.threw THEN [m |-> g.m, fault |-> "Error", url |-> NoURL]
  ELSE IF publicData.userId # "null"
  THEN IF RuleTruthy(redirectAuthenticatedTo) /\ mounted
       THEN [m |-> g.m, fault |-> "RedirectError", url |-> Target(redirectAuthenticatedTo)]
       ELSE IF redirects /\ authenticate.role.kind # "undefined"
               /\ ~authorizeRole(authenticate.role, publicData.role)
            THEN [m |-> g.m, fault |-> "RedirectError",
                  url |-> redirectToURL(authenticate.redirectTo, location)]
            ELSE [m |-> g.m, fault |-> "none", url |-> NoURL]
  ELSE IF redirects /\ mounted
       THEN [m |-> g.m, fault |-> "RedirectError",
             url |-> redirectToURL(authenticate.redirectTo, location)]
       ELSE [m |-> g.m, fault |-> "none", url |-> NoURL]

NoPage ==
  [authenticate |-> NoAuthenticate, redirectAuthenticatedTo |-> "undefined",
   layout |-> <<>>]

NoGate ==
  [phase |-> "none", Page |-> NoPage, isClient |-> FALSE, mounted |-> FALSE,
   location |-> "none", fault |-> "none", url |-> NoURL]

NoUi == [hook |-> [h \in Observers |-> NoHook], gate |-> NoGate]

\* -------------------------------------------------------------------- actions

LsKeys == {LOCALSTORAGE_PUBLIC_DATA_TOKEN, LOCALSTORAGE_CSRF_TOKEN, eventKey}

Idle == \A c \in Contexts : pc[c] = "idle"

\* A handler ran to completion in context c: its effects become the state.
StoreEffects(m, call) ==
  /\ \A d \in Contexts : m.pend[d][eventKey] <= MaxPending
  /\ cookies' = m.ck
  /\ ls' = m.ls
  /\ pending' = m.pend
  /\ value' = m.val
  /\ last' = [call EXCEPT !.dlv = m.dlv, !.hdrs = m.hdrs]
  /\ UNCHANGED <<storageOK, now>>

\* ... and its subscribers' callbacks have run.
Effects(m, call) ==
  /\ StoreEffects(m, call)
  /\ ui' = [ui EXCEPT !.hook = subscriberCallbacks(ui.hook, m.dlv)]
  /\ UNCHANGED subs

Commit(m, call) ==
  /\ Effects(m, call)
  /\ UNCHANGED <<pc, tmp>>

Init ==
  /\ cookies = (COOKIE_PUBLIC_DATA_TOKEN :> Absent) @@ (COOKIE_CSRF_TOKEN :> Absent)
  /\ ls = (LOCALSTORAGE_PUBLIC_DATA_TOKEN :> Absent)
            @@ (LOCALSTORAGE_CSRF_TOKEN :> Absent) @@ (eventKey :> <<>>)
  /\ storageOK \in BOOLEAN
  /\ now = 0
  /\ subs = [c \in Contexts |-> {}]
  /\ value = [c \in Contexts |-> emptyPublicData]
  /\ pending = [c \in Contexts |-> [k \in LsKeys |-> 0]]
  /\ pc = [c \in Contexts |-> "idle"]
  /\ tmp = [c \in Contexts |-> Absent]
  /\ last = NoCall
  /\ ui = NoUi

\* Date.now() advances between two calls, or does not.
Tick ==
  /\ Idle
  /\ now < MaxClock
  /\ now' = now + 1
  /\ last' = NoCall
  /\ UNCHANGED <<cookies, ls, storageOK, subs, value, pending, pc, tmp, ui>>

\* A response of the server sets, replaces or expires the session cookie.
ServerSetSessionCookie(v) ==
  /\ Idle
  /\ cookies[COOKIE_PUBLIC_DATA_TOKEN] # v
  /\ cookies' = [cookies EXCEPT ![COOKIE_PUBLIC_DATA_TOKEN] = v]
  /\ last' = [NoCall EXCEPT !.op = "setCookie"]
  /\ UNCHANGED <<ls, storageOK, now, subs, value, pending, pc, tmp, ui>>

ServerSetCsrfCookie(v) ==
  /\ Idle
  /\ cookies[COOKIE_CSRF_TOKEN] # v
  /\ cookies' = [cookies EXCEPT ![COOKIE_CSRF_TOKEN] = v]
  /\ last' = [NoCall EXCEPT !.op = "setCookie"]
  /\ UNCHANGED <<ls, storageOK, now, subs, value, pending, pc, tmp, ui>>

Subscribe(c, o) ==
  /\ Idle
  /\ o \notin subs[c]
  /\ subs' = [subs EXCEPT ![c] = @ \cup {o}]
  /\ last' = NoCall
  /\ UNCHANGED <<cookies, ls, storageOK, now, value, pending, pc, tmp, ui>>

Unsubscribe(c, o) ==
  /\ Idle
  /\ o \in subs[c]
  /\ subs' = [subs EXCEPT ![c] = @ \ {o}]
  /\ last' = NoCall
  /\ UNCHANGED <<cookies, ls, storageOK, now, value, pending, pc, tmp, ui>>

GetData(c) ==
  /\ Idle
  /\ LET r == getData(Machine, c)
     IN  Commit(r.m, [NoCall EXCEPT !.op = "getData", !.ctx = c, !.threw = r.threw,
                                    !.data = r.data, !.tok = r.tok,
                                    !.mirror0 = ls[LOCALSTORAGE_PUBLIC_DATA_TOKEN]])

UpdateState(c, v, suppressEvent) ==
  /\ Idle
  /\ LET r == updateState(Machine, c, v, suppressEvent)
     IN  Commit(r.m, [NoCall EXCEPT !.op = "updateState", !.ctx = c, !.given = v,
                                    !.suppress = suppressEvent, !.threw = r.threw])

Clear(c) ==
  /\ Idle
  /\ LET r == clear(Machine, c)
     IN  Commit(r.m, [NoCall EXCEPT !.op = "clear", !.ctx = c, !.threw = r.threw])

\* The event loop of context c delivers one queued storage event.
StorageEvent(c, key) ==
  /\ Idle
  /\ pending[c][key] > 0
  /\ LET m0 == [Machine EXCEPT !.pend = [pending EXCEPT ![c][key] = @ - 1]]
         r == storageListener(m0, c, key)
     IN  Commit(r.m, [NoCall EXCEPT !.op = "storage", !.ctx = c, !.tok = key,
                                    !.suppress = TRUE, !.threw = r.threw])

GetAntiCSRFToken(c) ==
  /\ Idle
  /\ LET r == getAntiCSRFToken(Machine, c)
     IN  Commit(r.m, [NoCall EXCEPT !.op = "getAntiCSRFToken", !.ctx = c,
                                    !.threw = r.threw, !.tok = r.ret])

BackupAntiCSRFToken(c) ==
  /\ Idle
  /\ LET r == backupAntiCSRFTokenToLocalStorage(Machine, c)
     IN  Commit(r.m, [NoCall EXCEPT !.op = "backupAntiCSRFToken", !.ctx = c,
                                    !.threw = r.threw])

BeforeHttpRequest(c) ==
  /\ Idle
  /\ LET r == beforeHttpRequest(Machine, c)
     IN  Commit(r.m, [NoCall EXCEPT !.op = "beforeHttpRequest", !.ctx = c,
                                    !.threw = r.threw])

BeforeHttpResponse(c, marks) ==
  /\ Idle
  /\ LET r == beforeHttpResponse(Machine, c, marks)
     IN  Commit(r.m, [NoCall EXCEPT !.op = "beforeHttpResponse", !.ctx = c,
                                    !.marks = marks, !.threw = r.threw])

OnRpcError(c, name) ==
  /\ Idle
  /\ LET r == onRpcError(Machine, c, name)
     IN  Commit(r.m, [NoCall EXCEPT !.op = "onRpcError", !.ctx = c, !.tok = name,
                                    !.threw = r.threw])

\* The store of every context, driven by its callers, the server's cookies
\* and the event loop.
Next ==
  \/ Tick
  \/ \E v \in {TokA, TokBad, Absent} : ServerSetSessionCookie(v)
  \/ \E c \in Contexts, o \in Observers : Subscribe(c, o)
  \/ \E c \in Contexts, o \in Observers : Unsubscribe(c, o)
  \/ \E c \in Contexts : GetData(c)
  \/ \E c \in Contexts, v \in {Undefined, userA}, s \in BOOLEAN :
       UpdateState(c, v, s)
  \/ \E c \in Contexts : Clear(c)
  \/ \E c \in Contexts, key \in LsKeys : StorageEvent(c, key)

Spec == Init /\ [][Next]_vars

\* The anti-CSRF helpers, the middleware hooks and the RPC error event of the
\* context that talks to the server, with the store calls they lead to; its
\* sibling only listens.
Requester == "A"

NextHttp ==
  \/ Tick
  \/ \E v \in {TokA, Absent} : ServerSetSessionCookie(v)
  \/ \E v \in CsrfTokens \cup {Absent} : ServerSetCsrfCookie(v)
  \/ \E c \in Contexts : Subscribe(c, "o1")
  \/ \E c \in Contexts, key \in LsKeys : StorageEvent(c, key)
  \/ GetData(Requester)
  \/ \E s \in BOOLEAN : UpdateState(Requester, Undefined, s)
  \/ Clear(Requester)
  \/ GetAntiCSRFToken(Requester)
  \/ BackupAntiCSRFToken(Requester)
  \/ BeforeHttpRequest(Requester)
  \/ \E marks \in SUBSET ResponseMarkers : BeforeHttpResponse(Requester, marks)
  \/ \E name \in {"AuthenticationError", "Error"} : OnRpcError(Requester, name)

SpecHttp == Init /\ [][NextHttp]_vars

\* ------------------------------------------------- the calls, access by access
\* Contexts of one origin run in parallel: between two accesses of one
\* context to the cookie jar or to localStorage, another context may make
\* its own.  Each action below is one such access of a call of context c.

Step(m, call, c, position, cookieValue) ==
  /\ Effects(m, call)
  /\ pc' = [pc EXCEPT ![c] = position]
  /\ tmp' = [tmp EXCEPT ![c] = cookieValue]

InitRace ==
  /\ cookies \in {(COOKIE_PUBLIC_DATA_TOKEN :> t) @@ (COOKIE_CSRF_TOKEN :> Absent) :
                    t \in {TokA, TokB}}
  /\ storageOK \in BOOLEAN
  /\ ls \in {(LOCALSTORAGE_PUBLIC_DATA_TOKEN :> t) @@ (LOCALSTORAGE_CSRF_TOKEN :> Absent)
               @@ (eventKey :> <<>>) :
               t \in IF storageOK THEN {Absent, cookies[COOKIE_PUBLIC_DATA_TOKEN]}
                     ELSE {Absent}}
  /\ now = 0
  /\ subs = [c \in Contexts |-> {"o1"}]
  /\ value = [c \in Contexts |->
                parsePublicDataToken(cookies[COOKIE_PUBLIC_DATA_TOKEN]).publicData]
  /\ pending = [c \in Contexts |-> [k \in LsKeys |-> 0]]
  /\ pc = [c \in Contexts |-> "idle"]
  /\ tmp = [c \in Contexts |-> Absent]
  /\ last = NoCall
  /\ ui = NoUi

\* clear(): deleteCookie(...)
ClearDeleteCookie(c) ==
  /\ pc[c] = "idle"
  /\ Step(deleteSessionCookie(Machine), [NoCall EXCEPT !.op = "clear:deleteCookie", !.ctx = c],
          c, "clear:removeItem", Absent)

\* clear(): localStorage.removeItem(...)
ClearRemoveItem(c) ==
  /\ pc[c] = "clear:removeItem"
  /\ Step(removeMirror(Machine, c), [NoCall EXCEPT !.op = "clear:removeItem", !.ctx = c],
          c, "clear:updateState", Absent)

\* clear(): this.updateState(emptyPublicData)
ClearUpdateState(c) ==
  /\ pc[c] = "clear:updateState"
  /\ LET r == updateState(Machine, c, emptyPublicData, FALSE)
     IN  Step(r.m, [NoCall EXCEPT !.op = "clear", !.ctx = c, !.threw = r.threw],
              c, "idle", Absent)

\* getData(): getToken(): readCookie(...)
GetDataReadCookie(c) ==
  /\ pc[c] = "idle"
  /\ Step(Machine, [NoCall EXCEPT !.op = "getData:readCookie", !.ctx = c],
          c, "getData:storage", cookies[COOKIE_PUBLIC_DATA_TOKEN])

\* getData(): getToken(): localStorage.setItem(...) or getItem(...), and the
\* decoding
GetDataStorage(c) ==
  /\ pc[c] = "getData:storage"
  /\ LET r == getDataOf(getTokenWith(Machine, c, tmp[c]))
     IN  Step(r.m, [NoCall EXCEPT !.op = "getData", !.ctx = c, !.threw = r.threw,
                                  !.data = r.data, !.tok = r.tok,
                                  !.mirror0 = ls[LOCALSTORAGE_PUBLIC_DATA_TOKEN]],
              c, "idle", Absent)

\* updateState(): localStorage.setItem(this.eventKey, ...)
UpdateStateBroadcast(c) ==
  /\ pc[c] = "idle"
  /\ Step(broadcast(Machine, c, FALSE),
          [NoCall EXCEPT !.op = "updateState:broadcast", !.ctx = c],
          c, "updateState:readCookie", Absent)

\* the storage listener: updateState(undefined, {suppressEvent: true}) when
\* the event is the broadcast key's
ListenerStart(c, key) ==
  /\ pc[c] = "idle"
  /\ pending[c][key] > 0
  /\ Step([Machine EXCEPT !.pend = [pending EXCEPT ![c][key] = @ - 1]],
          [NoCall EXCEPT !.op = "storage:start", !.ctx = c, !.tok = key,
                         !.suppress = TRUE],
          c, IF key = eventKey THEN "updateState:readCookie" ELSE "idle", Absent)

\* updateState(): getData(): getToken(): readCookie(...)
UpdateStateReadCookie(c) ==
  /\ pc[c] = "updateState:readCookie"
  /\ Step(Machine, [NoCall EXCEPT !.op = "updateState:readCookie", !.ctx = c],
          c, "updateState:storage", cookies[COOKIE_PUBLIC_DATA_TOKEN])

\* updateState(): getData(): the storage access and the decoding, then
\* observable.next(...)
UpdateStateStorage(c) ==
  /\ pc[c] = "updateState:storage"
  /\ LET r == updateStateOf(getDataOf(getTokenWith(Machine, c, tmp[c])), c)
     IN  Step(r.m, [NoCall EXCEPT !.op = "updateState", !.ctx = c, !.threw = r.threw],
              c, "idle", Absent)

NextRace ==
  \/ \E c \in Contexts : ClearDeleteCookie(c)
  \/ \E c \in Contexts : ClearRemoveItem(c)
  \/ \E c \in Contexts : ClearUpdateState(c)
  \/ \E c \in Contexts : GetDataReadCookie(c)
  \/ \E c \in Contexts : GetDataStorage(c)
  \/ \E c \in Contexts : UpdateStateBroadcast(c)
  \/ \E c \in Contexts, key \in LsKeys : ListenerStart(c, key)
  \/ \E c \in Contexts : UpdateStateReadCookie(c)
  \/ \E c \in Contexts : UpdateStateStorage(c)

SpecRace == InitRace /\ [][NextRace]_vars

\* Contexts that only recompute: every emitted value comes from getData() or
\* from clear().
NextBroadcast ==
  \/ Tick
  \/ \E v \in {TokA, TokB, Absent} : ServerSetSessionCookie(v)
  \/ \E c \in Contexts : Subscribe(c, "o1")
  \/ \E c \in Contexts : UpdateState(c, Undefined, FALSE)
  \/ \E c \in Contexts : Clear(c)
  \/ \E c \in Contexts, key \in LsKeys : StorageEvent(c, key)

SpecBroadcast == Init /\ [][NextBroadcast]_vars

\* ------------------------------------------------------- the hooks' lifecycle

MaxUnsubscribe == 2     \* calls of one unsubscribe handle

\* The first render of hook instance h: useState(initialState).
UseSession(h, initialPublicData, option, enabled, isServer) ==
  /\ Idle
  /\ ui.hook[h].phase = "none"
  /\ LET suspense == suspenseOf(option, enabled)
         r == initialState(Machine, HookCtx, initialPublicData, suspense, isServer)
     IN  /\ StoreEffects(r.m, [NoCall EXCEPT !.op = "useSession", !.ctx = HookCtx,
                                             !.tok = h, !.threw = r.threw,
                                             !.data = r.session])
         /\ ui' = [ui EXCEPT !.hook[h] =
                     [phase |-> IF r.threw THEN "failed" ELSE "rendered",
                      initialPublicData |-> initialPublicData,
                      suspense |-> suspense, isServer |-> isServer,
                      session |-> r.session, isLoading |-> r.isLoading,
                      cleanups |-> 0]]
  /\ UNCHANGED <<subs, pc, tmp>>

\* The effect of hook instance h after its component has mounted (a server
\* render runs no effect): resynchronise, then subscribe.  A getData() that
\* throws leaves the effect before setSession and subscribe.
MountHook(h) ==
  /\ Idle
  /\ ui.hook[h].phase = "rendered"
  /\ ~ui.hook[h].isServer
  /\ LET g == getData(Machine, HookCtx)
     IN  /\ StoreEffects(g.m, [NoCall EXCEPT !.op = "useSession:effect",
                                             !.ctx = HookCtx, !.tok = h,
                                             !.threw = g.threw, !.data = g.data])
         /\ ui' = [ui EXCEPT !.hook[h] =
                     IF g.threw
                     THEN [@ EXCEPT !.phase = "failed"]
                     ELSE [@ EXCEPT !.phase = "mounted", !.session = g.data,
                                    !.isLoading = FALSE]]
         /\ subs' = IF g.threw THEN subs
                    ELSE [subs EXCEPT ![HookCtx] = @ \cup {h}]
  /\ UNCHANGED <<pc, tmp>>

\* The component of hook instance h unmounts: React runs the effect's cleanup.
UnmountHook(h) ==
  /\ Idle
  /\ ui.hook[h].phase = "mounted"
  /\ subs' = [subs EXCEPT ![HookCtx] = useSessionCleanup(@, h)]
  /\ ui' = [ui EXCEPT !.hook[h].phase = "unmounted", !.hook[h].cleanups = 1]
  /\ last' = [NoCall EXCEPT !.op = "useSession:cleanup", !.ctx = HookCtx, !.tok = h]
  /\ UNCHANGED <<cookies, ls, storageOK, now, value, pending, pc, tmp>>

\* The unsubscribe handle of h is called once more.
UnsubscribeAgain(h) ==
  /\ Idle
  /\ ui.hook[h].phase = "unmounted"
  /\ ui.hook[h].cleanups < MaxUnsubscribe
  /\ subs' = [subs EXCEPT ![HookCtx] = useSessionCleanup(@, h)]
  /\ ui' = [ui EXCEPT !.hook[h].cleanups = @ + 1]
  /\ last' = [NoCall EXCEPT !.op = "useSession:cleanup", !.ctx = HookCtx, !.tok = h]
  /\ UNCHANGED <<cookies, ls, storageOK, now, value, pending, pc, tmp>>

\* The hooks of one context over the store: one with every combination of
\* options and rendering context, one with the defaults on the client.  The
\* sibling context logs out, which broadcasts.
NextHook ==
  \/ \E v \in {TokA, TokBad, Absent} : ServerSetSessionCookie(v)
  \/ \E initialPublicData \in {Undefined, userB},
        option \in {"null", "true", "false"}, enabled \in BOOLEAN,
        isServer \in BOOLEAN :
       UseSession("o1", initialPublicData, option, enabled, isServer)
  \/ UseSession("o2", Undefined, "null", FALSE, FALSE)
  \/ \E h \in Observers : MountHook(h)
  \/ \E h \in Observers : UnmountHook(h)
  \/ \E h \in Observers : UnsubscribeAgain(h)
  \/ UpdateState(HookCtx, Undefined, FALSE)
  \/ \E c \in Contexts : Clear(c)
  \/ \E key \in LsKeys : StorageEvent(HookCtx, key)

SpecHook == Init /\ [][NextHook]_vars

\* ------------------------------------------------------ the gate's lifecycle
\* AuthRoot's own useSession({suspense: false}) is hook instance RootHook.

RootHook == "o1"

Authenticates ==
  {NoAuthenticate, AuthenticateFalse, AuthenticateTrue}
    \cup {AuthenticateObject(redirectTo, role) :
            redirectTo \in {"undefined", "", "/login", "https://sso.test/in?app=1"},
            role \in {NoRole, RoleString("admin"), RoleArray({"user", "editor"})}}

RedirectRules == {"undefined", "false", "/dashboard", "adminsOnly"}

\* Pages that declare their rules themselves.
Pages ==
  [authenticate : Authenticates, redirectAuthenticatedTo : RedirectRules,
   layout : {<<>>}]

Locations == {"https://app.test/secret?tab=2", "https://app.test/"}

\* What a render of AuthRoot leaves: the page, or the fault it threw.
Rendered(r, phase) ==
  [ui.gate EXCEPT !.phase = IF r.fault = "none" THEN phase ELSE "faulted",
                  !.fault = r.fault, !.url = r.url]

\* The first render of AuthRoot, on the server or on a client.
RenderAuthRoot(Page, isClient, location) ==
  /\ Idle
  /\ ui.gate.phase = "none"
  /\ ui.hook[RootHook].phase = "none"
  /\ LET i == initialState(Machine, HookCtx, Undefined, FALSE, ~isClient)
         r == AuthRoot(i.m, HookCtx, Page, FALSE, isClient, location)
     IN  /\ StoreEffects(r.m, [NoCall EXCEPT !.op = "AuthRoot", !.ctx = HookCtx,
                                             !.threw = r.fault # "none"])
         /\ ui' = [ui EXCEPT
                     !.gate = [Rendered(r, "rendered") EXCEPT
                                 !.Page = Page, !.isClient = isClient,
                                 !.location = location],
                     !.hook[RootHook] =
                       [NoHook EXCEPT !.phase = IF r.fault = "none" THEN "rendered"
                                                ELSE "failed",
                                      !.isServer = ~isClient,
                                      !.session = i.session,
                                      !.isLoading = i.isLoading]]
  /\ UNCHANGED <<subs, pc, tmp>>

\* The effects of the first mount: useSession's, then the two setMounted(true).
MountAuthRoot ==
  /\ Idle
  /\ ui.gate.phase = "rendered"
  /\ ui.gate.isClient
  /\ LET g == getData(Machine, HookCtx)
     IN  /\ StoreEffects(g.m, [NoCall EXCEPT !.op = "AuthRoot:effects",
                                             !.ctx = HookCtx, !.threw = g.threw,
                                             !.data = g.data])
         /\ ui' = IF g.threw
                  THEN [ui EXCEPT !.gate.phase = "faulted", !.gate.fault = "Error",
                                  !.hook[RootHook].phase = "failed"]
                  ELSE [ui EXCEPT !.gate.phase = "mounted", !.gate.mounted = TRUE,
                                  !.hook[RootHook].phase = "mounted",
                                  !.hook[RootHook].session = g.data,
                                  !.hook[RootHook].isLoading = FALSE]
         /\ subs' = IF g.threw THEN subs
                    ELSE [subs EXCEPT ![HookCtx] = @ \cup {RootHook}]
  /\ UNCHANGED <<pc, tmp>>

\* A render of the mounted AuthRoot.
RerenderAuthRoot ==
  /\ Idle
  /\ ui.gate.phase = "mounted"
  /\ LET r == AuthRoot(Machine, HookCtx, ui.gate.Page, ui.gate.mounted,
                       ui.gate.isClient, ui.gate.location)
     IN  /\ StoreEffects(r.m, [NoCall EXCEPT !.op = "AuthRoot", !.ctx = HookCtx,
                                             !.threw = r.fault # "none"])
         /\ ui' = [ui EXCEPT !.gate = Rendered(r, "mounted")]
  /\ UNCHANGED <<subs, pc, tmp>>

\* One page behind the gate, with the server's cookies and a logout.
NextGate ==
  \/ \E v \in {TokA, TokB, TokBad, Absent} : ServerSetSessionCookie(v)
  \/ \E Page \in Pages, isClient \in BOOLEAN, location \in Locations :
       RenderAuthRoot(Page, isClient, location)
  \/ MountAuthRoot
  \/ RerenderAuthRoot
  \/ Clear(HookCtx)

SpecGate == Init /\ [][NextGate]_vars

\* ------------------------------------------------------- pages with layouts

MaxDepth == 3     \* elements in the chain a getLayout returns

LayoutTypes ==
  {NoRules,
   [authenticate |-> AuthenticateTrue, redirectAuthenticatedTo |-> "undefined"],
   [authenticate |-> NoAuthenticate, redirectAuthenticatedTo |-> "/dashboard"]}

Layouts == UNION {[1..n -> LayoutTypes] : n \in 0..MaxDepth}

\* Pages with a getLayout, declaring rules themselves or not.
LayoutPages ==
  [authenticate : {NoAuthenticate, AuthenticateFalse},
   redirectAuthenticatedTo : {"undefined"},
   layout : Layouts]

\* Pages behind the gate whose rules may come from their layout.
NextLayout ==
  \/ \E v \in {TokA, Absent} : ServerSetSessionCookie(v)
  \/ \E Page \in LayoutPages, isClient \in BOOLEAN, location \in Locations :
       RenderAuthRoot(Page, isClient, location)
  \/ MountAuthRoot
  \/ RerenderAuthRoot

SpecLayout == Init /\ [][NextLayout]_vars

\* --------------------------------------------------------------------- claims

Session == cookies[COOKIE_PUBLIC_DATA_TOKEN]
Mirror == ls[LOCALSTORAGE_PUBLIC_DATA_TOKEN]
Broadcast == ls[eventKey]

\* What the shared token decodes to: the cookie's when there is one, else the
\* mirror's.
EffectiveToken == IF Truthy(Session) THEN Session ELSE Mirror
Decodable ==
  ~Truthy(EffectiveToken) \/ ~parsePublicDataToken(EffectiveToken).threw
CurrentData ==
  IF Truthy(EffectiveToken)
  THEN parsePublicDataToken(EffectiveToken).publicData
  ELSE emptyPublicData

Delivered(c, v) == [o \in Observers |-> IF o \in subs[c] THEN <<v>> ELSE <<>>]
NothingDelivered == [o \in Observers |-> <<>>]

\* A timestamp string greater than the key's previous value.
EvGreater(new, old) == new # <<>> /\ (old = <<>> \/ new[1] > old[1])

Broadcasting(call) ==
  /\ call.op \in {"updateState", "clear"}
  /\ ~call.suppress

\* C1: the storage listener never writes the broadcast key and queues no
\* notification: each listener run consumes exactly the one notification it
\* handles, and a non-suppressed updateState()/clear() writes the broadcast
\* key once and queues at most one notification in each other context, none
\* in its own.  Every chain of notifications is therefore finite.
C1_LoopFree ==
  [][ /\ last'.op = "storage" =>
           /\ ls'[eventKey] = ls[eventKey]
           /\ \A d \in Contexts :
                pending'[d][eventKey] =
                  pending[d][eventKey]
                    - (IF d = last'.ctx /\ last'.tok = eventKey THEN 1 ELSE 0)
      /\ Broadcasting(last') =>
           /\ storageOK => ls'[eventKey] = toString(now)
           /\ pending'[last'.ctx][eventKey] = pending[last'.ctx][eventKey]
           /\ \A d \in Other(last'.ctx) :
                /\ pending'[d][eventKey] >= pending[d][eventKey]
                /\ pending'[d][eventKey] <= pending[d][eventKey] + 1
    ]_vars

\* C1 witness: a listener has recomputed after a broadcast, delivered the
\* decoded value to its subscribers, and nothing is queued anywhere.
C1_Witness ==
  /\ last.op = "storage"
  /\ last.tok = eventKey
  /\ Broadcast # <<>>
  /\ subs[last.ctx] # {}
  /\ last.dlv = Delivered(last.ctx, userA)
  /\ \A d \in Contexts : \A k \in LsKeys : pending[d][k] = 0

\* C2: right after a non-suppressed updateState()/clear() of one context,
\* every sibling context either has a broadcast-key notification queued or
\* has already emitted the value the current shared token decodes to.
C2_SiblingLearns ==
  (Broadcasting(last) /\ ~last.threw /\ storageOK /\ Decodable)
    => \A b \in Other(last.ctx) :
         pending[b][eventKey] > 0 \/ value[b] = CurrentData

\* C3: after clear() the context's getData() is EmptyPublicData, the cookie
\* and the mirror are absent, and each subscriber got exactly one
\* notification, EmptyPublicData (an observer not subscribed got none).
C3_ClearPost ==
  last.op = "clear" =>
    /\ ~last.threw
    /\ ~getData(Machine, last.ctx).threw
    /\ getData(Machine, last.ctx).data = emptyPublicData
    /\ Session = Absent
    /\ Mirror = Absent
    /\ last.dlv = Delivered(last.ctx, emptyPublicData)
    /\ value[last.ctx] = emptyPublicData

\* C3 witness: a clear() that removed a mirrored token (the sibling has the
\* removal's storage event queued) with both observers subscribed.
C3_Witness ==
  /\ last.op = "clear"
  /\ subs[last.ctx] = Observers
  /\ last.dlv = Delivered(last.ctx, emptyPublicData)
  /\ \E b \in Other(last.ctx) : pending[b][LOCALSTORAGE_PUBLIC_DATA_TOKEN] > 0
  /\ Mirror = Absent

\* C5: every updateState() without suppressEvent (storage available) leaves
\* the broadcast key strictly greater than it was.
C5_BroadcastStrictlyIncreases ==
  [][ (last'.op = "updateState" /\ ~last'.suppress /\ storageOK)
        => EvGreater(ls'[eventKey], ls[eventKey]) ]_vars

\* C6: updateState(value, {suppressEvent: true}) delivers value once to each
\* subscribed observer and changes neither the broadcast key nor the queues
\* of broadcast notifications; with value omitted it delivers what getData()
\* returns (nothing when getData() fails).
C6_SuppressedUpdate ==
  [][ (last'.op = "updateState" /\ last'.suppress) =>
        /\ ls'[eventKey] = ls[eventKey]
        /\ \A d \in Contexts : pending'[d][eventKey] = pending[d][eventKey]
        /\ IF last'.given # Undefined
           THEN /\ ~last'.threw
                /\ last'.dlv = Delivered(last'.ctx, last'.given)
                /\ value'[last'.ctx] = last'.given
           ELSE LET g == getData(Machine, last'.ctx) IN
                IF g.threw
                THEN last'.threw /\ last'.dlv = NothingDelivered
                ELSE ~last'.threw /\ last'.dlv = Delivered(last'.ctx, g.data)
    ]_vars

\* C6 witness: a suppressed updateState(userA) reached both subscribers
\* while the broadcast key holds an earlier timestamp and no token exists.
C6_Witness ==
  /\ last.op = "updateState"
  /\ last.suppress
  /\ last.given = userA
  /\ subs[last.ctx] = Observers
  /\ last.dlv = Delivered(last.ctx, userA)
  /\ Broadcast = toString(0)
  /\ now = 1
  /\ EffectiveToken = Absent

\* C7: a token read with a non-empty cookie and storage available uses the
\* cookie's value and leaves the mirror equal to it.
C7_CookieWriteThrough ==
  (last.op = "getData" /\ storageOK /\ Truthy(Session)) =>
    /\ last.tok = Session
    /\ Mirror = Session
    /\ last.threw = parsePublicDataToken(Session).threw
    /\ ~last.threw => last.data = parsePublicDataToken(Session).publicData

\* C7 witness: the read found the mirror holding another token than the
\* cookie and overwrote it.
C7_Witness ==
  /\ last.op = "getData"
  /\ Session = TokA
  /\ last.mirror0 = TokBad
  /\ Mirror = TokA
  /\ last.data = userA

\* C8: a token read with the cookie absent uses the mirror's value and
\* changes nothing in localStorage and queues no storage event; with the
\* mirror absent too getData() returns EmptyPublicData.
C8_FallbackNoWriteBack ==
  [][ (last'.op = "getData" /\ ~Truthy(Session)) =>
        /\ ls' = ls
        /\ pending' = pending
        /\ last'.tok = Mirror
        /\ ~Truthy(Mirror) => (~last'.threw /\ last'.data = emptyPublicData)
    ]_vars

\* C8 witness: the cookie is gone and the read returned the mirrored user.
C8_Witness ==
  /\ last.op = "getData"
  /\ Session = Absent
  /\ last.mirror0 = TokA
  /\ Mirror = TokA
  /\ last.tok = TokA
  /\ last.data = userA

\* C4: (the server sets no cookie in SpecRace, so an absent cookie means a
\* clear() has deleted it) once every call of every context has finished
\* after a clear(), the mirror holds no token and getData() returns
\* EmptyPublicData in every context.
C4_LogoutNotUndone ==
  (Idle /\ Session = Absent) =>
    /\ Mirror = Absent
    /\ \A c \in Contexts : getData(Machine, c).data = emptyPublicData

\* C9: with localStorage throwing on every access, none of the store's
\* calls, the anti-CSRF helpers and the middleware hooks (a response without
\* the CSRF-error marker) throws.
C9_StorageFailureNotSurfaced ==
  ( /\ ~storageOK
    /\ last.op \in {"getData", "updateState", "clear", "getAntiCSRFToken",
                    "backupAntiCSRFToken", "beforeHttpRequest", "beforeHttpResponse"}
    /\ HEADER_CSRF_ERROR \notin last.marks )
    => ~last.threw

\* C10: with a decodable session cookie and localStorage throwing, getData()
\* returns the cookie's PublicData.
C10_CookiePreferredWithoutStorage ==
  ( /\ last.op = "getData"
    /\ ~storageOK
    /\ Truthy(Session)
    /\ ~parsePublicDataToken(Session).threw )
    => /\ ~last.threw
       /\ last.data = parsePublicDataToken(Session).publicData

\* C11: a getData() or an updateState() without a value, reading a non-empty
\* token (the cookie's, else the mirror's) that does not decode, fails and
\* delivers nothing; a getData() that returns EmptyPublicData found no token.
C11_DecodeErrorSurfaced ==
  /\ ( /\ last.op = "getData" \/ (last.op = "updateState" /\ last.given = Undefined)
       /\ Truthy(EffectiveToken)
       /\ parsePublicDataToken(EffectiveToken).threw )
       => (last.threw /\ last.dlv = NothingDelivered)
  /\ (last.op = "getData" /\ ~last.threw /\ last.data = emptyPublicData)
       => ~Truthy(EffectiveToken)

CsrfCookie == cookies[COOKIE_CSRF_TOKEN]
CsrfMirror == ls[LOCALSTORAGE_CSRF_TOKEN]

\* C13: onRpcError clears the store (cookie deleted, mirror removed,
\* EmptyPublicData delivered once to each subscriber, broadcast key written)
\* exactly when the error's name is AuthenticationError and getData() returns
\* a userId; otherwise the cookie stays, nothing is delivered, no value is
\* emitted and the broadcast key and its notification queues are unchanged.
C13_RpcErrorClears ==
  [][ last'.op = "onRpcError" =>
        LET g == getData(Machine, last'.ctx) IN
        IF last'.tok = "AuthenticationError" /\ ~g.threw /\ g.data.userId # "null"
        THEN /\ ~last'.threw
             /\ cookies'[COOKIE_PUBLIC_DATA_TOKEN] = Absent
             /\ ls'[LOCALSTORAGE_PUBLIC_DATA_TOKEN] = Absent
             /\ last'.dlv = Delivered(last'.ctx, emptyPublicData)
             /\ value'[last'.ctx] = emptyPublicData
             /\ ls'[eventKey] = toString(now)
        ELSE /\ cookies' = cookies
             /\ last'.dlv = NothingDelivered
             /\ value' = value
             /\ ls'[eventKey] = ls[eventKey]
             /\ \A d \in Contexts : pending'[d][eventKey] = pending[d][eventKey]
             /\ last'.threw = (last'.tok = "AuthenticationError" /\ g.threw)
    ]_vars

\* C13 witness: an AuthenticationError of a logged-in context cleared the
\* store: its subscriber got EmptyPublicData and the sibling has the events
\* of the mirror's removal and of the broadcast queued.
C13_Witness ==
  /\ last.op = "onRpcError"
  /\ last.tok = "AuthenticationError"
  /\ subs[last.ctx] # {}
  /\ last.dlv = Delivered(last.ctx, emptyPublicData)
  /\ Session = Absent
  /\ Broadcast = toString(now)
  /\ \E b \in Other(last.ctx) :
       pending[b][eventKey] > 0 /\ pending[b][LOCALSTORAGE_PUBLIC_DATA_TOKEN] > 0

\* C14: beforeHttpResponse on a response with the public-data-token marker
\* (the token being absent or decodable) delivers the value the current
\* token decodes to once to each subscriber, and writes the broadcast key
\* when storage is available; without the marker it delivers nothing and
\* leaves the broadcast key alone.
C14_ResponsePropagates ==
  [][ last'.op = "beforeHttpResponse" =>
        IF HEADER_PUBLIC_DATA_TOKEN \in last'.marks
        THEN Decodable =>
               /\ last'.dlv = Delivered(last'.ctx, CurrentData)
               /\ value'[last'.ctx] = CurrentData
               /\ storageOK => ls'[eventKey] = toString(now)
        ELSE /\ last'.dlv = NothingDelivered
             /\ value' = value
             /\ ls'[eventKey] = ls[eventKey]
    ]_vars

\* C15: the headers beforeHttpRequest puts on the request hold the anti-CSRF
\* header exactly when a CSRF token is available, with the cookie's value
\* when the cookie is present and else the mirror's; a hook that fails puts
\* no header at all.
C15_CsrfHeader ==
  last.op = "beforeHttpRequest" =>
    LET token == IF Truthy(CsrfCookie) THEN CsrfCookie ELSE CsrfMirror IN
    /\ \A v \in CsrfTokens \cup {Absent, ""} :
         (<<HEADER_CSRF, v>> \in last.hdrs) <=> (Truthy(token) /\ v = token)
    /\ ~last.threw => <<"Content-Type", "application/json">> \in last.hdrs
    /\ last.threw => last.hdrs = {}

\* C15 witness: the cookie is gone and the header carries the mirror's token.
C15_Witness ==
  /\ last.op = "beforeHttpRequest"
  /\ CsrfCookie = Absent
  /\ CsrfMirror = "csrf1"
  /\ last.hdrs = {<<"Content-Type", "application/json">>, <<HEADER_CSRF, "csrf1">>}

\* C16: with storage available, getAntiCSRFToken() called while
\* the CSRF cookie holds a value returns it and leaves the mirror equal to it.
C16_CsrfWriteThrough ==
  (last.op = "getAntiCSRFToken" /\ storageOK /\ Truthy(CsrfCookie)) =>
    /\ last.tok = CsrfCookie
    /\ CsrfMirror = CsrfCookie

\* A call of the hooks' context that emitted a value.
Emits(call) ==
  /\ call.ctx = HookCtx
  /\ ~call.threw
  /\ \/ call.op \in {"updateState", "clear"}
     \/ call.op = "storage" /\ call.tok = eventKey

\* C12: a hook whose unsubscribe handle has been called (once or more) is
\* not registered, and every call of the store (updateState, clear, the
\* storage listener) delivers nothing to an observer that is not registered
\* and leaves its hook's session as it was, while each registered observer
\* gets the emitted value exactly once and its hook holds it.
C12_UnsubscribedGetsNothing ==
  [][ /\ \A h \in Observers :
           ui'.hook[h].phase = "unmounted" => h \notin subs'[HookCtx]
      /\ last'.op \in {"updateState", "clear", "storage"} =>
           \A h \in Observers :
             IF Emits(last') /\ h \in subs[HookCtx]
             THEN /\ last'.dlv[h] = <<value'[HookCtx]>>
                  /\ ui'.hook[h].session = value'[HookCtx]
             ELSE /\ last'.dlv[h] = <<>>
                  /\ ui'.hook[h] = ui.hook[h]
    ]_vars

\* C12 witness: after a login both hooks held userA; o1 unmounted and its
\* handle was called twice; the clear() that followed reached o2 only.
C12_Witness ==
  /\ last.op = "clear"
  /\ last.ctx = HookCtx
  /\ ui.hook["o1"].phase = "unmounted"
  /\ ui.hook["o1"].cleanups = MaxUnsubscribe
  /\ ui.hook["o1"].session = userA
  /\ last.dlv["o1"] = <<>>
  /\ ui.hook["o2"].phase = "mounted"
  /\ last.dlv["o2"] = <<emptyPublicData>>
  /\ ui.hook["o2"].session = emptyPublicData

\* C17: every render of useSession that precedes the mount effect returns
\* EmptyPublicData with isLoading = true.
C17_PreMountSnapshot ==
  \A h \in Observers :
    ui.hook[h].phase = "rendered" =>
      (ui.hook[h].session = emptyPublicData /\ ui.hook[h].isLoading)

\* C17 (amended): before the mount effect, a hook without initialPublicData
\* and outside suspense mode returns EmptyPublicData with isLoading = true,
\* whatever the store holds; with initialPublicData it returns that value
\* with isLoading = false; in suspense mode without initialPublicData the
\* first render on a client returns what getData() returns (failing when
\* getData() fails) with isLoading = false, and on the server it suspends.
C17_PreMountByOptions ==
  [][ \A h \in Observers :
        LET k == ui'.hook[h] IN
        /\ k.phase = "rendered" =>
             IF k.initialPublicData # Undefined
             THEN k.session = k.initialPublicData /\ ~k.isLoading
             ELSE IF k.suspense
                  THEN ~k.isServer /\ ~k.isLoading
                  ELSE k.session = emptyPublicData /\ k.isLoading
        /\ ( /\ last'.op = "useSession" /\ last'.tok = h
             /\ k.initialPublicData = Undefined /\ k.suspense ) =>
             IF k.isServer
             THEN last'.threw /\ k.phase = "failed"
             ELSE LET g == getData(Machine, HookCtx) IN
                  /\ last'.threw = g.threw
                  /\ ~g.threw => (k.phase = "rendered" /\ k.session = g.data)
        /\ (ui.hook[h].phase = "rendered" /\ k.phase = "rendered") =>
             k = ui.hook[h]
    ]_vars

\* C17 witness: with userA logged in, a suspense hook rendered userA on the
\* client and a default hook rendered the loading snapshot, both unmounted
\* yet.
C17_Witness ==
  /\ Session = TokA
  /\ ui.hook["o1"].phase = "rendered"
  /\ ui.hook["o1"].suspense
  /\ ui.hook["o1"].session = userA
  /\ ~ui.hook["o1"].isLoading
  /\ ui.hook["o2"].phase = "rendered"
  /\ ui.hook["o2"].session = emptyPublicData
  /\ ui.hook["o2"].isLoading

\* C18: isLoading is true only for a non-suspense hook without
\* initialPublicData that has rendered and whose effect has not set the
\* session (its session is EmptyPublicData); a mounted or unmounted hook has
\* isLoading false, a delivered emission leaves it false, and once false it
\* stays false.
C18_IsLoadingOnlyInitially ==
  [][ \A h \in Observers :
        LET k == ui.hook[h]
            k2 == ui'.hook[h]
        IN  /\ k2.isLoading =>
                 /\ k2.phase \in {"rendered", "failed"}
                 /\ ~k2.suspense
                 /\ k2.initialPublicData = Undefined
                 /\ k2.session = emptyPublicData
            /\ k2.phase \in {"mounted", "unmounted"} => ~k2.isLoading
            /\ last'.dlv[h] # <<>> => ~k2.isLoading
            /\ (k.phase # "none" /\ ~k.isLoading) => ~k2.isLoading
    ]_vars

\* C18 witness: a default hook that was loading, mounted with userA logged
\* in, then got the EmptyPublicData of a clear(): isLoading is false.
C18_Witness ==
  /\ last.op = "clear"
  /\ ui.hook["o2"].phase = "mounted"
  /\ last.dlv["o2"] = <<emptyPublicData>>
  /\ ui.hook["o2"].session = emptyPublicData
  /\ ~ui.hook["o2"].isLoading
  /\ ~ui.hook["o2"].suspense
  /\ ui.hook["o2"].initialPublicData = Undefined

\* What the gate's render saw and what its page declares.
GateSession == getData(Machine, HookCtx)
RoleDeclared(a) == a.kind = "object" /\ a.role.kind # "undefined"
RoleMatches(a, role) ==
  IF a.role.kind = "array" THEN role \in a.role.names ELSE a.role.names = {role}
Unsatisfied(a, g) ==
  g.data.userId = "null" \/ (RoleDeclared(a) /\ ~RoleMatches(a, g.data.role))

\* C19: a render of AuthRoot throws AuthenticationError exactly when the
\* page's authenticate is true or an object without redirectTo, the render
\* is a client's after the first mount, and the session getData() returns
\* has no userId or has a role that neither equals the declared role nor is
\* in the declared list; never when authenticate is absent or false.
C19_AuthenticationError ==
  [][ last'.op = "AuthRoot" =>
        LET k == ui'.gate
            a == k.Page.authenticate
            g == GateSession
        IN  (k.fault = "AuthenticationError") <=>
              /\ a.kind = "true" \/ (a.kind = "object" /\ a.redirectTo = "undefined")
              /\ k.isClient
              /\ k.mounted
              /\ ~g.threw
              /\ Unsatisfied(a, g)
    ]_vars

\* C19 witness: authenticate = {role: "admin"}, the session's role is
\* "user", the component is mounted: AuthenticationError.
C19_Witness ==
  /\ last.op = "AuthRoot"
  /\ ui.gate.Page.authenticate = AuthenticateObject("undefined", RoleString("admin"))
  /\ ui.gate.mounted
  /\ Session = TokB
  /\ ui.gate.fault = "AuthenticationError"

\* The URL a redirect of the authenticate rule must carry.
ExpectedRedirect(redirectTo, location) ==
  [origin |-> IF redirectTo = "/login" THEN "https://app.test" ELSE "https://sso.test",
   pathname |-> IF redirectTo = "/login" THEN "/login" ELSE "/in",
   search |->
     (IF redirectTo = "/login" THEN <<>> ELSE << <<"app", "1">> >>)
       \o << <<"next", IF location = "https://app.test/" THEN "/" ELSE "/secret">> >>]

\* The page's redirectAuthenticatedTo rule redirects the session.
Preempted(Page, g) ==
  /\ g.data.userId # "null"
  /\ RuleTruthy(redirectAuthenticatedToOf(Page.redirectAuthenticatedTo, g.data))

\* C20: on every client render of a page with authenticate = {redirectTo,
\* role?} (redirectTo non-empty, no redirectAuthenticatedTo rule that
\* redirects), a session without userId or with a declared role that does
\* not match gets a RedirectError to redirectTo resolved against the
\* location, with next = the location's path; a session that satisfies the
\* rule gets no fault; never an AuthenticationError.
C20_RedirectInsteadOfFault ==
  [][ ( /\ last'.op = "AuthRoot"
        /\ ui'.gate.isClient
        /\ ui'.gate.Page.authenticate.kind = "object"
        /\ RuleTruthy(ui'.gate.Page.authenticate.redirectTo)
        /\ ~GateSession.threw
        /\ ~Preempted(ui'.gate.Page, GateSession) ) =>
        LET k == ui'.gate
            a == k.Page.authenticate
        IN  /\ k.fault # "AuthenticationError"
            /\ IF Unsatisfied(a, GateSession)
               THEN /\ k.fault = "RedirectError"
                    /\ k.url = ExpectedRedirect(a.redirectTo, k.location)
               ELSE k.fault = "none"
    ]_vars

\* C20 (amended): the same on every client render after the first mount;
\* and on every client render of such a page, mounted or not, no
\* AuthenticationError is thrown and a session that satisfies the rule gets
\* no fault.
C20_RedirectOnceMounted ==
  [][ ( /\ last'.op = "AuthRoot"
        /\ ui'.gate.isClient
        /\ ui'.gate.Page.authenticate.kind = "object"
        /\ RuleTruthy(ui'.gate.Page.authenticate.redirectTo)
        /\ ~GateSession.threw
        /\ ~Preempted(ui'.gate.Page, GateSession) ) =>
        LET k == ui'.gate
            a == k.Page.authenticate
        IN  /\ k.fault # "AuthenticationError"
            /\ k.fault = "RedirectError" =>
                 k.url = ExpectedRedirect(a.redirectTo, k.location)
            /\ IF Unsatisfied(a, GateSession)
               THEN k.mounted => k.fault = "RedirectError"
               ELSE k.fault = "none"
    ]_vars

\* C20 witness: authenticate = {redirectTo: "/login", role: "admin"}, the
\* session's role is "user", the component is mounted at /secret?tab=2:
\* RedirectError to /login?next=/secret on the location's origin.
C20_Witness ==
  /\ last.op = "AuthRoot"
  /\ ui.gate.Page.authenticate = AuthenticateObject("/login", RoleString("admin"))
  /\ ui.gate.Page.redirectAuthenticatedTo = "undefined"
  /\ ui.gate.mounted
  /\ ui.gate.location = "https://app.test/secret?tab=2"
  /\ Session = TokB
  /\ ui.gate.fault = "RedirectError"
  /\ ui.gate.url = [origin |-> "https://app.test", pathname |-> "/login",
                    search |-> << <<"next", "/secret">> >>]

\* The target a redirectAuthenticatedTo rule resolves to for a role.
ExpectedTarget(rule, role) ==
  CASE rule = "/dashboard" -> "/dashboard"
    [] rule = "adminsOnly" /\ role = "admin" -> "/admin"
    [] OTHER -> "false"

\* The authenticate rule of the page throws AuthenticationError.
AuthenticationFaults(a, g) ==
  /\ a.kind = "true" \/ (a.kind = "object" /\ a.redirectTo = "undefined")
  /\ Unsatisfied(a, g)

\* A render of the mounted gate of a page that declares
\* redirectAuthenticatedTo, with the session getData() returns.
MountedRedirectRule ==
  /\ last'.op = "AuthRoot"
  /\ ui'.gate.isClient
  /\ ui'.gate.mounted
  /\ ui'.gate.Page.redirectAuthenticatedTo # "undefined"
  /\ ~GateSession.threw

\* C21: on a render of the mounted gate of a page with
\* redirectAuthenticatedTo, a session with userId and a rule that resolves
\* to a target gets a RedirectError to that target; a session without
\* userId, or a rule that resolves to false, gets no redirect of this rule.
C21_RedirectAuthenticated ==
  [][ MountedRedirectRule =>
        LET k == ui'.gate
            g == GateSession
            target == ExpectedTarget(k.Page.redirectAuthenticatedTo, g.data.role)
        IN  IF g.data.userId # "null" /\ target # "false"
            THEN k.fault = "RedirectError" /\ k.url = Target(target)
            ELSE k.fault = "RedirectError" =>
                   /\ RuleTruthy(k.Page.authenticate.redirectTo)
                   /\ k.url = ExpectedRedirect(k.Page.authenticate.redirectTo, k.location)
    ]_vars

\* C21 (amended): the same, unless the page's authenticate rule (true, or
\* an object without redirectTo, with a declared role the session's role
\* does not match) throws AuthenticationError first.
C21_RedirectUnlessDenied ==
  [][ MountedRedirectRule =>
        LET k == ui'.gate
            g == GateSession
            target == ExpectedTarget(k.Page.redirectAuthenticatedTo, g.data.role)
        IN  IF AuthenticationFaults(k.Page.authenticate, g)
            THEN k.fault = "AuthenticationError"
            ELSE IF g.data.userId # "null" /\ target # "false"
                 THEN k.fault = "RedirectError" /\ k.url = Target(target)
                 ELSE k.fault = "RedirectError" =>
                        /\ RuleTruthy(k.Page.authenticate.redirectTo)
                        /\ k.url = ExpectedRedirect(k.Page.authenticate.redirectTo,
                                                    k.location)
    ]_vars

\* C21 witness: the rule is the function sending admins to /admin, the
\* session is an admin's, the gate is mounted: RedirectError to /admin.
C21_Witness ==
  /\ last.op = "AuthRoot"
  /\ ui.gate.mounted
  /\ ui.gate.Page.redirectAuthenticatedTo = "adminsOnly"
  /\ Session = TokA
  /\ ui.gate.fault = "RedirectError"
  /\ ui.gate.url = Target("/admin")

\* The rules of the first element of a chain, outermost first, whose type
\* declares authenticate or redirectAuthenticatedTo.
Declares(type) ==
  type.authenticate # NoAuthenticate \/ type.redirectAuthenticatedTo # "undefined"
FirstDeclaring(layout) ==
  IF \E i \in 1..Len(layout) : Declares(layout[i])
  THEN layout[CHOOSE i \in 1..Len(layout) :
                /\ Declares(layout[i])
                /\ \A j \in 1..(i - 1) : ~Declares(layout[j])]
  ELSE NoRules

\* C22: for a rendered page that declares neither rule and whose getLayout
\* returns a chain, getAuthValues returns the rules of the first element of
\* the chain, at any depth, whose type declares one, and undefined rules
\* when none does.
C22_RuleInheritance ==
  ( /\ ui.gate.phase # "none"
    /\ ui.gate.Page.authenticate = NoAuthenticate
    /\ ui.gate.Page.redirectAuthenticatedTo = "undefined"
    /\ ui.gate.Page.layout # <<>> )
    => getAuthValues(ui.gate.Page) = FirstDeclaring(ui.gate.Page.layout)

\* C23: a non-suppressed updateState() without a value that fails on an
\* undecodable token has advanced the broadcast key and queued a
\* notification in every sibling context, and has delivered nothing to the
\* local subscribers nor changed the emitted value.
C23_BroadcastBeforeCompute ==
  [][ ( /\ last'.op = "updateState"
        /\ ~last'.suppress
        /\ last'.given = Undefined
        /\ last'.threw ) =>
        /\ EvGreater(ls'[eventKey], ls[eventKey])
        /\ \A b \in Other(last'.ctx) :
             pending'[b][eventKey] = pending[b][eventKey] + 1
        /\ last'.dlv = NothingDelivered
        /\ value' = value
    ]_vars

\* C24: a render of AuthRoot before its first mount throws neither
\* AuthenticationError nor RedirectError, whatever the page's rules and the
\* session.
C24_NoFaultBeforeMount ==
  (last.op = "AuthRoot" /\ ~ui.gate.mounted)
    => ui.gate.fault \notin {"AuthenticationError", "RedirectError"}

====
